---- MODULE Spec2Model ----
(***************************************************************************)
(* A model of waybackurls (src/main.go): the multi-source fetch-and-merge  *)
(* pipeline of main(), the three source adapters, the subdomain filter and *)
(* the source selection, and the version-listing mode with getVersions.    *)
(*                                                                         *)
(* The flags are parsed, the domains read and the output opened before the *)
(* first state; a service's answer is chosen when the fetch returns.       *)
(*                                                                         *)
(* Strings are modelled as sequences of tokens (each token a TLA+ string): *)
(* a URL such as http://example.com/a is <<"http://","example.com","/a">>, *)
(* a timestamp is the sequence of its digits, the empty string is <<>>.    *)
(* Two Go strings are equal iff their token sequences are.                 *)
(***************************************************************************)
EXTENDS Integers, Sequences, FiniteSets, TLC

\* ------------------------------------------------------------------ bounds

\* the -concurrency values explored are 0, 1 and MaxConcurrency
MaxConcurrency == 2

\* ----------------------------------------------------------- string helpers

Range(s) == { s[i] : i \in 1..Len(s) }

\* strings.ToLower, token by token (the tokens with upper-case letters that
\* the model uses are listed; every other token is already lower case)
LowerToken(t) ==
    CASE t = "EXAMPLE.com" -> "example.com"
      [] t = "Example.COM" -> "example.com"
      [] t = "Other.ORG" -> "other.org"
      [] OTHER -> t

ToLower(s) == [i \in 1..Len(s) |-> LowerToken(s[i])]

\* strings.TrimSpace: leading and trailing white space removed
RECURSIVE TrimLeft(_)
TrimLeft(s) == IF s # <<>> /\ Head(s) = " " THEN TrimLeft(Tail(s)) ELSE s

RECURSIVE TrimRight(_)
TrimRight(s) ==
    IF s # <<>> /\ s[Len(s)] = " " THEN TrimRight(SubSeq(s, 1, Len(s) - 1)) ELSE s

TrimSpace(s) == TrimRight(TrimLeft(s))

\* strings.Split(s, ","): the pieces between the separators; always at least
\* one piece (the empty string splits into one empty piece)
RECURSIVE SplitFrom(_, _, _)
SplitFrom(s, i, cur) ==
    IF i > Len(s) THEN <<cur>>
    ELSE IF s[i] = "," THEN <<cur>> \o SplitFrom(s, i + 1, <<>>)
    ELSE SplitFrom(s, i + 1, Append(cur, s[i]))

Split(s) == SplitFrom(s, 1, <<>>)

\* ------------------------------------------------------------- url parsing

SchemeTokens == {"http://", "https://"}
PortTokens == {":8080"}
\* a token url.Parse rejects (an invalid percent escape)
BadEscape == "%zz"

\* url.Parse: an error for an invalid escape; otherwise the host is the
\* authority that follows the scheme (host name and optional port), and a
\* string without a scheme has no host at all (it is all path)
Parse(rawUrl) ==
    IF BadEscape \in Range(rawUrl)
    THEN [err |-> TRUE, host |-> <<>>]
    ELSE IF Len(rawUrl) >= 2 /\ rawUrl[1] \in SchemeTokens
         THEN [err |-> FALSE,
               host |-> IF Len(rawUrl) >= 3 /\ rawUrl[3] \in PortTokens
                        THEN <<rawUrl[2], rawUrl[3]>>
                        ELSE <<rawUrl[2]>>]
         ELSE [err |-> FALSE, host |-> <<>>]

\* (*URL).Hostname: the host without its port
Hostname(u) == IF u.host = <<>> THEN <<>> ELSE <<u.host[1]>>

\* isSubdomain comparing the host and the domain as they are written
isSubdomainCaseSensitive(rawUrl, domain) ==
    LET u == Parse(rawUrl)
    IN IF u.err THEN FALSE
       ELSE Hostname(u) # domain

isSubdomain(rawUrl, domain) ==
    LET u == Parse(rawUrl)
    IN IF u.err THEN FALSE
       ELSE ToLower(Hostname(u)) # ToLower(domain)

\* ---------------------------------------------------------------- adapters

\* type wurl struct { date string; url string }
wurl(d, u) == [date |-> d, url |-> u]

\* A response body to be decoded as JSON is modelled by what the decoder
\* makes of it: a body that is not valid JSON, or a JSON array whose
\* elements are arrays of strings (fields) or some other JSON value.

\* json.Unmarshal(raw, &wrapper) with wrapper [][]string: a syntax error
\* leaves wrapper nil; an element that is not an array is reported as an
\* error and leaves a nil row at its index, the other rows are decoded
UnmarshalRows(body) ==
    IF ~body.valid
    THEN [v |-> <<>>, err |-> TRUE]
    ELSE [v |-> [i \in 1..Len(body.elems) |->
                    IF body.elems[i].isArray THEN body.elems[i].fields ELSE <<>>],
          err |-> \E i \in 1..Len(body.elems) : ~body.elems[i].isArray]

\* WaybackRows without the skip of the first row
WaybackRowsKeepFirst(wrapper) ==
    IF \E i \in 1..Len(wrapper) : Len(wrapper[i]) < 3
    THEN [out |-> <<>>, panic |-> TRUE]
    ELSE [out |-> [i \in 1..Len(wrapper) |-> wurl(wrapper[i][2], wrapper[i][3])],
          panic |-> FALSE]

\* the loop of getWaybackURLs over the decoded rows: the first row is
\* skipped, every other row is indexed at [1] and [2] (Go, 0-based), which
\* panics on a row of fewer than three fields
WaybackRows(wrapper) ==
    IF \E i \in 2..Len(wrapper) : Len(wrapper[i]) < 3
    THEN [out |-> <<>>, panic |-> TRUE]
    ELSE [out |-> [i \in 1..(IF Len(wrapper) = 0 THEN 0 ELSE Len(wrapper) - 1) |->
                      wurl(wrapper[i + 1][2], wrapper[i + 1][3])],
          panic |-> FALSE]

\* getWaybackURLs on a response [getErr, readErr, body]; the error of
\* json.Unmarshal is assigned and never looked at
getWaybackURLs(r) ==
    IF r.getErr \/ r.readErr
    THEN [out |-> <<>>, err |-> TRUE, panic |-> FALSE]
    ELSE LET wrapper == UnmarshalRows(r.body).v
             rows == WaybackRows(wrapper)
         IN [out |-> rows.out, err |-> FALSE, panic |-> rows.panic]

\* json.Unmarshal of one crawl-index line into struct{URL, Timestamp}: a line
\* is not valid JSON (error), or an object whose missing fields stay ""
UnmarshalLine(line) ==
    IF ~line.valid
    THEN [err |-> TRUE, URL |-> <<>>, Timestamp |-> <<>>]
    ELSE [err |-> FALSE, URL |-> line.url, Timestamp |-> line.timestamp]

RECURSIVE CrawlLines(_)
CrawlLines(lines) ==
    IF lines = <<>> THEN <<>>
    ELSE LET wrapper == UnmarshalLine(Head(lines))
         IN IF wrapper.err
            THEN CrawlLines(Tail(lines))
            ELSE <<wurl(wrapper.Timestamp, wrapper.URL)>> \o CrawlLines(Tail(lines))

\* getCommonCrawlURLs on a response [getErr, lines]
getCommonCrawlURLs(r) ==
    IF r.getErr
    THEN [out |-> <<>>, err |-> TRUE, panic |-> FALSE]
    ELSE [out |-> CrawlLines(r.lines), err |-> FALSE, panic |-> FALSE]

\* dec.Decode(&wrapper) of the reputation-index object: a body that is not
\* valid JSON is an error and leaves wrapper.URLs empty
DecodeReport(body) ==
    IF ~body.valid
    THEN [URLs |-> <<>>, err |-> TRUE]
    ELSE [URLs |-> body.detected_urls, err |-> FALSE]

\* getVirusTotalURLs taking a missing key for a failure
getVirusTotalURLsNoKeyIsError(apiKey, r) ==
    IF apiKey = <<>>
    THEN [out |-> <<>>, err |-> TRUE, panic |-> FALSE]
    ELSE IF r.getErr
    THEN [out |-> <<>>, err |-> TRUE, panic |-> FALSE]
    ELSE [out |-> [i \in 1..Len(r.body.detected_urls) |->
                      wurl(<<>>, r.body.detected_urls[i])],
          err |-> FALSE, panic |-> FALSE]

\* getVirusTotalURLs with the VT_API_KEY of the environment and a response
\* [getErr, body]; without a key nothing is fetched; the error of Decode is
\* assigned and never looked at; the records carry no date
getVirusTotalURLs(apiKey, r) ==
    IF apiKey = <<>>
    THEN [out |-> <<>>, err |-> FALSE, panic |-> FALSE]
    ELSE IF r.getErr
    THEN [out |-> <<>>, err |-> TRUE, panic |-> FALSE]
    ELSE LET wrapper == DecodeReport(r.body)
         IN [out |-> [i \in 1..Len(wrapper.URLs) |-> wurl(<<>>, wrapper.URLs[i])],
             err |-> FALSE, panic |-> FALSE]

\* --------------------------------------------------------- version listing

\* DedupKey taking the timestamp for the digest
DedupKeyTimestamp(s) == s[2]

\* lines 345-348, seen[s[5]]: a row is known by its digest, the sixth field
\* ("urlkey", "timestamp", "original", "mimetype", "statuscode", "digest",
\* "length")
DedupKey(s) == s[6]

\* line 349: the snapshot URL made of the timestamp and the original URL
SnapshotURL(s) == <<"https://web.archive.org/web/">> \o s[2] \o <<"if_/">> \o s[3]

\* lines 336-350 after the first row: a row whose digest was seen is passed
\* over, any other gives a snapshot URL
RECURSIVE VersionsFrom(_, _)
VersionsFrom(rows, seen) ==
    IF rows = <<>> THEN <<>>
    ELSE LET s == Head(rows)
         IN IF DedupKey(s) \in seen
            THEN VersionsFrom(Tail(rows), seen)
            ELSE <<SnapshotURL(s)>> \o VersionsFrom(Tail(rows), seen \cup {DedupKey(s)})

\* the loop of getVersions over the decoded rows: the first row is skipped,
\* every other row is indexed at [5] (Go, 0-based), which panics on a row of
\* fewer than six fields
VersionRows(r) ==
    IF \E i \in 2..Len(r) : Len(r[i]) < 6
    THEN [out |-> <<>>, panic |-> TRUE]
    ELSE [out |-> IF r = <<>> THEN <<>> ELSE VersionsFrom(Tail(r), {}),
          panic |-> FALSE]

\* getVersions on a response [getErr, body]; the error of Decode is returned
getVersions(resp) ==
    IF resp.getErr
    THEN [out |-> <<>>, err |-> TRUE, panic |-> FALSE]
    ELSE LET r == UnmarshalRows(resp.body)
         IN IF r.err
            THEN [out |-> <<>>, err |-> TRUE, panic |-> FALSE]
            ELSE LET rows == VersionRows(r.v)
                 IN [out |-> rows.out, err |-> FALSE, panic |-> rows.panic]

\* line 86, fmt.Fprintln(outputFile, strings.Join(versions, "\n")): the
\* lines written, one per version, and one empty line when there is none
PrintVersions(versions) == IF versions = <<>> THEN << <<>> >> ELSE versions

\* ------------------------------------------------------- source selection

\* Sources without the TrimSpace
SourcesUntrimmed(sourcesFlag) ==
    { Split(sourcesFlag)[k] : k \in 1..Len(Split(sourcesFlag)) }

\* sources := make(map[string]bool); sources[TrimSpace(s)] = true for every
\* piece of the -sources flag
Sources(sourcesFlag) ==
    { TrimSpace(Split(sourcesFlag)[k]) : k \in 1..Len(Split(sourcesFlag)) }

\* the fetchFns slice, in the order of the three if statements
ResolveFetchFns(sourcesFlag) ==
    LET sources == Sources(sourcesFlag)
    IN (IF <<"wayback">> \in sources THEN <<"wayback">> ELSE <<>>)
       \o (IF <<"commoncrawl">> \in sources THEN <<"commoncrawl">> ELSE <<>>)
       \o (IF <<"virustotal">> \in sources THEN <<"virustotal">> ELSE <<>>)

\* ------------------------------------------------------------------- dates
\* A timestamp string is a sequence of one-character tokens.

Digits == <<"0", "1", "2", "3", "4", "5", "6", "7", "8", "9">>

IsDigit(c) == \E k \in 1..10 : Digits[k] = c

DigitVal(c) == (CHOOSE k \in 1..10 : Digits[k] = c) - 1

\* the number written by the n digits of s that start at position i
RECURSIVE Num(_, _, _)
Num(s, i, n) == IF n = 0 THEN 0 ELSE Num(s, i, n - 1) * 10 + DigitVal(s[i + n - 1])

isLeap(year) == year % 4 = 0 /\ (year % 100 # 0 \/ year % 400 = 0)

daysIn(month, year) ==
    IF month = 2 THEN (IF isLeap(year) THEN 29 ELSE 28)
    ELSE IF month \in {4, 6, 9, 11} THEN 30 ELSE 31

\* the zero time.Time: January 1, year 1, 00:00:00 UTC
ZeroTime == <<1, 1, 1, 0, 0, 0>>

\* time.Parse("20060102150405", value): fourteen digits, each field within
\* its range, nothing after them; on an error the zero Time is returned
ParseTime(value) ==
    IF Len(value) # 14 \/ \E i \in 1..Len(value) : ~IsDigit(value[i])
    THEN [err |-> TRUE, d |-> ZeroTime]
    ELSE LET year == Num(value, 1, 4)
             month == Num(value, 5, 2)
             day == Num(value, 7, 2)
             hour == Num(value, 9, 2)
             min == Num(value, 11, 2)
             sec == Num(value, 13, 2)
         IN IF /\ month \in 1..12
               /\ hour < 24 /\ min < 60 /\ sec < 60
               /\ day \in 1..daysIn(month, year)
            THEN [err |-> FALSE, d |-> <<year, month, day, hour, min, sec>>]
            ELSE [err |-> TRUE, d |-> ZeroTime]

\* n written with `width` digits, zero padded
RECURSIVE Pad(_, _)
Pad(n, width) ==
    IF width = 0 THEN <<>> ELSE Append(Pad(n \div 10, width - 1), Digits[(n % 10) + 1])

\* d.Format(time.RFC3339) of a UTC time
FormatRFC3339(d) ==
    Pad(d[1], 4) \o <<"-">> \o Pad(d[2], 2) \o <<"-">> \o Pad(d[3], 2) \o <<"T">>
    \o Pad(d[4], 2) \o <<":">> \o Pad(d[5], 2) \o <<":">> \o Pad(d[6], 2) \o <<"Z">>

\* ------------------------------------------------------------------ inputs
\* The command line, the environment and what the three services answer.

D2020 == <<"2", "0", "2", "0", "0", "1", "0", "1", "0", "0", "0", "0", "0", "0">>
D2021 == <<"2", "0", "2", "1", "0", "2", "0", "3", "0", "4", "0", "5", "0", "6">>
\* a timestamp time.Parse rejects (month 13)
DBad == <<"2", "0", "2", "0", "1", "3", "0", "1", "0", "0", "0", "0", "0", "0">>

UrlA == <<"http://", "example.com", "/a">>
UrlB == <<"http://", "example.com", ":8080", "/b">>
UrlUpper == <<"http://", "EXAMPLE.com", "/a">>
UrlSub == <<"http://", "sub.example.com", "/a">>
UrlBad == <<"http://", "example.com", "/", "%zz">>
UrlOther == <<"http://", "other.org", "/">>

Example == <<"example.com">>
Other == <<"Other.ORG">>

TargetLists == { <<>>, <<Example>>, <<Other, Other>> }

SourcesFlags ==
    { <<"wayback", ",", "commoncrawl", ",", "virustotal">>,
      <<"wayback">>,
      <<"foo", ",", " ", "commoncrawl", ",", "virustotal", " ">>,
      <<"foo", ",", "Wayback">>,
      <<"virustotal">>,
      <<>> }

ApiKeys == { <<>>, <<"key">> }

\* the values of -concurrency: none, one at a time, and several
Concurrencies == {0, 1, MaxConcurrency}

Row(fields) == [isArray |-> TRUE, fields |-> fields]
NotARow == [isArray |-> FALSE, fields |-> <<>>]
Header == Row(<<<<"original">>, <<"timestamp">>, <<"url">>>>)
DataRow(d, u) == Row(<<<<"_">>, d, u>>)
Body(elems) == [valid |-> TRUE, elems |-> elems]
Garbage == [valid |-> FALSE, elems |-> <<>>]

WaybackOK(body) == [getErr |-> FALSE, readErr |-> FALSE, body |-> body]

\* example.com: few kinds of failure, several records
\* Other.ORG: every kind of failure, at most one record
WaybackResponses(domain) ==
    IF domain = Example
    THEN { [getErr |-> TRUE, readErr |-> FALSE, body |-> Garbage],
           WaybackOK(Body(<<Header, DataRow(D2020, UrlA), DataRow(D2020, UrlA)>>)),
           WaybackOK(Body(<<DataRow(D2020, UrlA), DataRow(D2021, UrlSub),
                            DataRow(DBad, UrlUpper)>>)),
           WaybackOK(Body(<<Header, DataRow(D2020, UrlA), Row(<<<<"_">>, D2020>>)>>)) }
    ELSE { [getErr |-> FALSE, readErr |-> TRUE, body |-> Garbage],
           WaybackOK(Garbage),
           WaybackOK(Body(<<Header, NotARow>>)),
           WaybackOK(Body(<<Header, DataRow(D2020, UrlOther)>>)) }

Line(d, u) == [valid |-> TRUE, timestamp |-> d, url |-> u]
BadLine == [valid |-> FALSE, timestamp |-> <<>>, url |-> <<>>]

CommonCrawlResponses(domain) ==
    IF domain = Example
    THEN { [getErr |-> TRUE, lines |-> <<>>],
           [getErr |-> FALSE, lines |-> <<Line(D2021, UrlA), BadLine, Line(D2020, UrlB)>>],
           [getErr |-> FALSE, lines |-> <<BadLine, Line(D2020, UrlBad)>>] }
    ELSE { [getErr |-> FALSE, lines |-> <<>>] }

Report(urls) == [valid |-> TRUE, detected_urls |-> urls]
NoReport == [valid |-> FALSE, detected_urls |-> <<>>]

VirusTotalResponses(domain) ==
    IF domain = Example
    THEN { [getErr |-> TRUE, body |-> NoReport],
           [getErr |-> FALSE, body |-> Report(<<UrlSub, UrlA>>)] }
    ELSE { [getErr |-> FALSE, body |-> NoReport],
           [getErr |-> FALSE, body |-> Report(<<UrlOther>>)] }

\* the input URLs of the version-listing mode
VersionInputs == { <<>>, <<UrlA>>, <<UrlA, UrlB>> }

VersionHeader ==
    Row(<<<<"urlkey">>, <<"timestamp">>, <<"original">>, <<"mimetype">>,
          <<"statuscode">>, <<"digest">>, <<"length">>>>)
VersionRow(d, u, mimetype, digest) ==
    Row(<<<<"_">>, d, u, <<mimetype>>, <<"200">>, <<digest>>, <<"1">>>>)

\* what web.archive.org answers to the lookup of u: no answer, a body that
\* is not JSON, an element that is no array, rows that share a digest, the
\* header alone, rows without a header, a row of three fields
VersionResponses(u) ==
    { [getErr |-> TRUE, body |-> Garbage],
      [getErr |-> FALSE, body |-> Garbage],
      [getErr |-> FALSE, body |-> Body(<<VersionHeader, NotARow>>)],
      [getErr |-> FALSE,
       body |-> Body(<<VersionHeader,
                       VersionRow(D2020, u, "text/html", "AAA"),
                       VersionRow(D2021, u, "text/plain", "AAA"),
                       VersionRow(DBad, u, "text/html", "BBB"),
                       VersionRow(D2020, u, "text/html", "AAA")>>)],
      [getErr |-> FALSE, body |-> Body(<<VersionHeader>>)],
      [getErr |-> FALSE,
       body |-> Body(<<VersionRow(D2020, u, "text/html", "AAA"),
                       VersionRow(D2021, u, "text/html", "BBB")>>)],
      [getErr |-> FALSE,
       body |-> Body(<<VersionHeader, VersionRow(D2020, u, "text/html", "AAA"),
                       DataRow(D2021, u)>>)] }

Responses(fn, domain) ==
    CASE fn = "wayback" -> WaybackResponses(domain)
      [] fn = "commoncrawl" -> CommonCrawlResponses(domain)
      [] fn = "virustotal" -> VirusTotalResponses(domain)

\* ------------------------------------------------------------------- state

VARIABLES
    \* the flags, the arguments and the environment
    dates, noSubs, getVersionsFlag, sourcesFlag, concurrency, domains, apiKey,
    \* main: where it is, the resolved adapters, the index of the current
    \* domain, the number of adapter goroutines started for it
    pcMain, fetchFns, idx, started,
    \* of the current domain: the WaitGroup counter, the tokens in limiter,
    \* whether wurls is closed, the closing goroutine's position
    wg, limiter, closed, pcCloser,
    \* of each adapter goroutine: its position, the request it has in flight,
    \* resp and err of its fetch, the index of the record it sends next
    pcTask, req, resp, err, pos,
    \* the consumer: seen, and the record w it holds
    seen, w,
    \* the output stream, the error stream, the exit status (-1 while the
    \* process runs)
    output, stderr, exitCode,
    \* history: the response each fetch read, the goroutine whose fetch
    \* returned first (0: none yet), the (goroutine, index) of the records
    \* received from wurls and of the records printed for the current domain,
    \* the length of the output when the current domain began, the requests
    \* issued so far, the number of times wurls was closed
    raw, firstFetch, sent, emitted, outStart, netCalls, closes,
    \* history of the version-listing mode: for every input URL looked up,
    \* the response read and the versions and err getVersions returned
    lookups

config == <<dates, noSubs, getVersionsFlag, sourcesFlag, concurrency, domains, apiKey>>
mainVars == <<pcMain, fetchFns, idx, started>>
syncVars == <<wg, limiter, closed, pcCloser>>
taskVars == <<pcTask, req, resp, err, pos>>
consumerVars == <<seen, w>>
streams == <<output, stderr, exitCode>>
history == <<raw, firstFetch, sent, emitted, outStart, netCalls, closes>>

vars == <<config, mainVars, syncVars, taskVars, consumerVars, streams, history, lookups>>

\* at most three adapters are ever resolved
Tasks == 1..3

NoRequest == <<>>
NoResponse == [none |-> TRUE]
NoRecord == wurl(<<>>, <<>>)

domain == domains[idx]

\* a panic in any goroutine ends the process with status 2
Crashed == exitCode = 2

\* the goroutines of the current domain exist and the process is alive
Running == ~Crashed /\ pcMain \in {"spawn", "range", "handle"}

\* ------------------------------------------------------------------ fetch

subsWildcard == IF noSubs THEN <<>> ELSE <<"*.">>

\* the URL each adapter requests; none when the reputation index has no key
Query(fn, dom) ==
    CASE fn = "wayback" ->
            <<"http://web.archive.org/cdx/search/cdx?url=">> \o subsWildcard \o dom
            \o <<"/*&output=json&collapse=urlkey">>
      [] fn = "commoncrawl" ->
            <<"http://index.commoncrawl.org/CC-MAIN-2018-22-index?url=">>
            \o subsWildcard \o dom \o <<"/*&output=json">>
      [] fn = "virustotal" ->
            IF apiKey = <<>> THEN NoRequest
            ELSE <<"https://www.virustotal.com/vtapi/v2/domain/report?apikey=">>
                 \o apiKey \o <<"&domain=">> \o dom

\* fetch(domain, noSubs) of adapter fn when the service answers r
Fetch(fn, r) ==
    CASE fn = "wayback" -> getWaybackURLs(r)
      [] fn = "commoncrawl" -> getCommonCrawlURLs(r)
      [] fn = "virustotal" -> getVirusTotalURLs(apiKey, r)

\* the records of resp the loop hands to wurls: those the filter keeps
Kept(r, dom) == ~(noSubs /\ isSubdomain(r.url, dom))

\* NextSend leaving the loop at the first record the filter drops
NextSendBreaksAtDrop(rs, k, dom) ==
    IF k > Len(rs) THEN k
    ELSE IF Kept(rs[k], dom) THEN k
    ELSE Len(rs) + 1

\* the index of the first record at or after k that the loop sends;
\* Len + 1 when the loop ends
RECURSIVE NextSend(_, _, _)
NextSend(rs, k, dom) ==
    IF k > Len(rs) THEN k
    ELSE IF Kept(rs[k], dom) THEN k
    ELSE NextSend(rs, k + 1, dom)

\* ------------------------------------------------------------------- init

Init ==
    /\ dates \in BOOLEAN
    /\ noSubs \in BOOLEAN
    /\ getVersionsFlag \in BOOLEAN
    /\ sourcesFlag \in SourcesFlags
    /\ concurrency \in Concurrencies
    /\ domains \in (IF getVersionsFlag THEN VersionInputs ELSE TargetLists)
    /\ apiKey \in ApiKeys
    /\ pcMain = "start"
    /\ fetchFns = <<>>
    /\ idx = 0
    /\ started = 0
    /\ wg = 0
    /\ limiter = 0
    /\ closed = FALSE
    /\ pcCloser = "idle"
    /\ pcTask = [i \in Tasks |-> "idle"]
    /\ req = [i \in Tasks |-> NoRequest]
    /\ resp = [i \in Tasks |-> <<>>]
    /\ err = [i \in Tasks |-> FALSE]
    /\ pos = [i \in Tasks |-> 0]
    /\ seen = {}
    /\ w = NoRecord
    /\ output = <<>>
    /\ stderr = <<>>
    /\ exitCode = -1
    /\ raw = [i \in Tasks |-> NoResponse]
    /\ firstFetch = 0
    /\ sent = <<>>
    /\ emitted = <<>>
    /\ outStart = 0
    /\ netCalls = 0
    /\ closes = 0
    /\ lookups = <<>>

\* --------------------------------------------------------- get-versions mode

\* line 79: with -get-versions main runs the loop of lines 81-87 and nothing
\* else
StartVersions ==
    /\ pcMain = "start"
    /\ getVersionsFlag
    /\ pcMain' = "versions"
    /\ idx' = 1
    /\ UNCHANGED <<config, lookups, fetchFns, started, syncVars, taskVars,
                   consumerVars, streams, history>>

\* lines 82 and 316: getVersions(u) issues its request
GetVersionsCall ==
    /\ pcMain = "versions"
    /\ idx <= Len(domains)
    /\ pcMain' = "lookup"
    /\ netCalls' = netCalls + 1
    /\ UNCHANGED <<config, lookups, fetchFns, idx, started, syncVars, taskVars,
                   consumerVars, streams, raw, firstFetch, sent, emitted,
                   outStart, closes>>

\* lines 82-86: getVersions returns; on an error main goes on with the next
\* input, otherwise the versions are written; a panic ends the process with
\* status 2
GetVersionsReturn ==
    /\ ~Crashed
    /\ pcMain = "lookup"
    /\ \E r \in VersionResponses(domains[idx]) :
          LET res == getVersions(r)
          IN IF res.panic
             THEN /\ exitCode' = 2
                  /\ UNCHANGED <<pcMain, idx, output, lookups>>
             ELSE /\ lookups' = Append(lookups, [u |-> domains[idx], r |-> r,
                                                out |-> res.out, err |-> res.err])
                  /\ output' = IF res.err THEN output
                               ELSE output \o PrintVersions(res.out)
                  /\ idx' = idx + 1
                  /\ pcMain' = "versions"
                  /\ UNCHANGED exitCode
    /\ UNCHANGED <<config, fetchFns, started, syncVars, taskVars, consumerVars,
                   stderr, history>>

\* line 89: main returns after the last input
VersionsDone ==
    /\ pcMain = "versions"
    /\ idx > Len(domains)
    /\ pcMain' = "done"
    /\ exitCode' = 0
    /\ UNCHANGED <<config, lookups, fetchFns, idx, started, syncVars, taskVars,
                   consumerVars, output, stderr, history>>

\* ------------------------------------------------------------------- main

NoSourcesMessage ==
    <<"no valid sources specified. Please choose from: wayback, commoncrawl, virustotal">>

\* main, lines 92-112: the sources are resolved; none is a fatal error
SelectSources ==
    /\ pcMain = "start"
    /\ ~getVersionsFlag
    /\ fetchFns' = ResolveFetchFns(sourcesFlag)
    /\ IF Len(fetchFns') = 0
       THEN /\ stderr' = Append(stderr, NoSourcesMessage)
            /\ exitCode' = 1
            /\ pcMain' = "exit"
            /\ idx' = idx
       ELSE /\ pcMain' = "loop"
            /\ idx' = 1
            /\ UNCHANGED <<stderr, exitCode>>
    /\ UNCHANGED <<config, lookups, started, syncVars, taskVars, consumerVars, output, history>>

\* main returns after the last domain
Finish ==
    /\ pcMain = "loop"
    /\ idx > Len(domains)
    /\ pcMain' = "done"
    /\ exitCode' = 0
    /\ UNCHANGED <<config, lookups, fetchFns, idx, started, syncVars, taskVars, consumerVars,
                   output, stderr, history>>

\* lines 114-118: the next domain gets a WaitGroup, a channel and a limiter
\* of its own
NextDomain ==
    /\ pcMain = "loop"
    /\ idx <= Len(domains)
    /\ pcMain' = "spawn"
    /\ started' = 0
    /\ wg' = 0
    /\ limiter' = 0
    /\ closed' = FALSE
    /\ pcCloser' = "idle"
    /\ pcTask' = [i \in Tasks |-> "idle"]
    /\ req' = [i \in Tasks |-> NoRequest]
    /\ resp' = [i \in Tasks |-> <<>>]
    /\ err' = [i \in Tasks |-> FALSE]
    /\ pos' = [i \in Tasks |-> 0]
    /\ raw' = [i \in Tasks |-> NoResponse]
    /\ firstFetch' = 0
    /\ sent' = <<>>
    /\ emitted' = <<>>
    /\ outStart' = Len(output)
    /\ closes' = 0
    /\ UNCHANGED <<config, lookups, fetchFns, idx, consumerVars, streams, netCalls>>

\* lines 120-138: wg.Add(1) and the go statement, one adapter at a time
Spawn ==
    /\ ~Crashed
    /\ pcMain = "spawn"
    /\ started < Len(fetchFns)
    /\ started' = started + 1
    /\ wg' = wg + 1
    /\ pcTask' = [pcTask EXCEPT ![started + 1] = "acquire"]
    /\ UNCHANGED <<config, lookups, pcMain, fetchFns, idx, limiter, closed, pcCloser,
                   req, resp, err, pos, consumerVars, streams, history>>

\* lines 140-145: the closing goroutine is started, seen is made, and main
\* enters the range loop
SpawnCloser ==
    /\ ~Crashed
    /\ pcMain = "spawn"
    /\ started = Len(fetchFns)
    /\ pcCloser' = "wait"
    /\ seen' = {}
    /\ pcMain' = "range"
    /\ UNCHANGED <<config, lookups, fetchFns, idx, started, wg, limiter, closed, taskVars,
                   w, streams, history>>

\* --------------------------------------------------- the adapter goroutines

\* LimiterHasRoom with a budget below one taken for one
LimiterHasRoomAtLeastOne == limiter < (IF concurrency < 1 THEN 1 ELSE concurrency)

\* LimiterHasRoom with one slot too many
LimiterHasRoomOffByOne == limiter <= concurrency

\* line 118, make(chan struct{}, concurrency): a send does not block while
\* fewer than concurrency tokens are in the channel
LimiterHasRoom == limiter < concurrency

\* line 125, limiter <- struct{}{}: blocks while the limiter is full; the
\* fetch then builds its URL and issues its request
Acquire(i) ==
    /\ Running
    /\ pcTask[i] = "acquire"
    /\ LimiterHasRoom
    /\ limiter' = limiter + 1
    /\ req' = [req EXCEPT ![i] = Query(fetchFns[i], domain)]
    /\ netCalls' = IF req'[i] = NoRequest THEN netCalls ELSE netCalls + 1
    /\ pcTask' = [pcTask EXCEPT ![i] = "fetch"]
    /\ UNCHANGED <<config, lookups, mainVars, wg, closed, pcCloser, resp, err, pos,
                   consumerVars, streams, raw, firstFetch, sent, emitted,
                   outStart, closes>>

\* line 126: the fetch returns resp and err, or panics, which ends the
\* process with status 2
FetchReturn(i) ==
    /\ Running
    /\ pcTask[i] = "fetch"
    /\ \E r \in (IF req[i] = NoRequest THEN {NoResponse}
                 ELSE Responses(fetchFns[i], domain)) :
          LET res == Fetch(fetchFns[i], r)
          IN /\ raw' = [raw EXCEPT ![i] = r]
             /\ IF res.panic
                THEN /\ exitCode' = 2
                     /\ UNCHANGED <<pcTask, resp, err, firstFetch>>
                ELSE /\ resp' = [resp EXCEPT ![i] = res.out]
                     /\ err' = [err EXCEPT ![i] = res.err]
                     /\ firstFetch' = IF firstFetch = 0 THEN i ELSE firstFetch
                     /\ pcTask' = [pcTask EXCEPT ![i] = "release"]
                     /\ UNCHANGED exitCode
    /\ UNCHANGED <<config, lookups, mainVars, syncVars, req, pos, consumerVars,
                   output, stderr, sent, emitted, outStart, netCalls, closes>>

\* AfterLoopStep leaving the loop after the first record
AfterLoopStepBreak(i, k) == "return"

\* after a send, or at the start of the loop: the goroutine is at its next
\* send, or returns when the loop is over
AfterLoopStep(i, k) == IF k > Len(resp[i]) THEN "return" ELSE "send"

\* Release keeping the token until the goroutine ends
ReleaseKeepsToken(i) ==
    /\ Running
    /\ pcTask[i] = "release"
    /\ limiter' = limiter
    /\ IF err[i]
       THEN /\ pcTask' = [pcTask EXCEPT ![i] = "return"]
            /\ pos' = pos
       ELSE /\ pos' = [pos EXCEPT ![i] = NextSend(resp[i], 1, domain)]
            /\ pcTask' = [pcTask EXCEPT ![i] = AfterLoopStep(i, pos'[i])]
    /\ UNCHANGED <<config, lookups, mainVars, wg, closed, pcCloser, req, resp, err,
                   consumerVars, streams, history>>

\* lines 127-131, <-limiter: the token is given back; an error returns, a
\* success enters the loop over resp
Release(i) ==
    /\ Running
    /\ pcTask[i] = "release"
    /\ limiter' = limiter - 1
    /\ IF err[i]
       THEN /\ pcTask' = [pcTask EXCEPT ![i] = "return"]
            /\ pos' = pos
       ELSE /\ pos' = [pos EXCEPT ![i] = NextSend(resp[i], 1, domain)]
            /\ pcTask' = [pcTask EXCEPT ![i] = AfterLoopStep(i, pos'[i])]
    /\ UNCHANGED <<config, lookups, mainVars, wg, closed, pcCloser, req, resp, err,
                   consumerVars, streams, history>>

\* Send handing over the records of resp in any order, as if every record
\* were sent by a goroutine of its own
SendInAnyOrder(i) ==
    /\ Running
    /\ pcTask[i] = "send"
    /\ pcMain = "range"
    /\ ~closed
    /\ \E k \in 1..Len(resp[i]) :
          /\ Kept(resp[i][k], domain)
          /\ \A n \in 1..Len(sent) : sent[n] # [from |-> i, k |-> k]
          /\ w' = resp[i][k]
          /\ sent' = Append(sent, [from |-> i, k |-> k])
    /\ pcMain' = "handle"
    /\ pos' = pos
    /\ pcTask' = [pcTask EXCEPT ![i] =
                     IF \A k \in 1..Len(resp[i]) :
                           Kept(resp[i][k], domain) =>
                              \E n \in 1..Len(sent') : sent'[n] = [from |-> i, k |-> k]
                     THEN "return" ELSE "send"]
    /\ UNCHANGED <<config, lookups, fetchFns, idx, started, syncVars, req, resp, err,
                   seen, output, stderr, exitCode, raw, firstFetch, emitted,
                   outStart, netCalls, closes>>

\* line 135, wurls <- r, and line 146, the receive of the range loop: the
\* channel is unbuffered, so the send completes when main receives; a send
\* on a closed channel panics
Send(i) ==
    /\ Running
    /\ pcTask[i] = "send"
    /\ closed \/ pcMain = "range"
    /\ IF closed
       THEN /\ exitCode' = 2
            /\ UNCHANGED <<pcMain, pcTask, pos, w, sent>>
       ELSE /\ w' = resp[i][pos[i]]
            /\ sent' = Append(sent, [from |-> i, k |-> pos[i]])
            /\ pcMain' = "handle"
            /\ pos' = [pos EXCEPT ![i] = NextSend(resp[i], pos[i] + 1, domain)]
            /\ pcTask' = [pcTask EXCEPT ![i] = AfterLoopStep(i, pos'[i])]
            /\ UNCHANGED exitCode
    /\ UNCHANGED <<config, lookups, fetchFns, idx, started, syncVars, req, resp, err, seen,
                   output, stderr, raw, firstFetch, emitted, outStart, netCalls,
                   closes>>

\* TaskDone without the wg.Done()
TaskDoneWithoutDone(i) ==
    /\ Running
    /\ pcTask[i] = "return"
    /\ wg' = wg
    /\ pcTask' = [pcTask EXCEPT ![i] = "done"]
    /\ UNCHANGED <<config, lookups, mainVars, limiter, closed, pcCloser, req, resp, err,
                   pos, consumerVars, streams, history>>

\* line 124, the deferred wg.Done()
TaskDone(i) ==
    /\ Running
    /\ pcTask[i] = "return"
    /\ wg' = wg - 1
    /\ pcTask' = [pcTask EXCEPT ![i] = "done"]
    /\ UNCHANGED <<config, lookups, mainVars, limiter, closed, pcCloser, req, resp, err, pos,
                   consumerVars, streams, history>>

\* ---------------------------------------------------- the closing goroutine

\* WaitReturns while one goroutine is still running
WaitReturnsEarly == wg <= 1

\* wg.Wait() returns when the counter is zero
WaitReturns == wg = 0

\* line 141
CloserWait ==
    /\ Running
    /\ pcCloser = "wait"
    /\ WaitReturns
    /\ pcCloser' = "close"
    /\ UNCHANGED <<config, lookups, mainVars, wg, limiter, closed, taskVars, consumerVars,
                   streams, history>>

\* line 142
Close ==
    /\ Running
    /\ pcCloser = "close"
    /\ closed' = TRUE
    /\ closes' = closes + 1
    /\ pcCloser' = "done"
    /\ UNCHANGED <<config, lookups, mainVars, wg, limiter, taskVars, consumerVars, streams,
                   raw, firstFetch, sent, emitted, outStart, netCalls>>

\* ------------------------------------------------------------ the consumer

ParseFailure(rec) ==
    <<"failed to parse date [">> \o rec.date \o <<"] for URL [">> \o rec.url \o <<"]">>

\* the line printed for a record: lines 152-163
FormatLine(rec) ==
    IF dates
    THEN FormatRFC3339(ParseTime(rec.date).d) \o <<" ">> \o rec.url
    ELSE rec.url

\* IsDuplicate finding nothing
IsDuplicateNever(rec) == FALSE

\* IsDuplicate looking up the timestamp instead of the URL
IsDuplicateByDate(rec) == rec.date \in seen

\* line 147
IsDuplicate(rec) == rec.url \in seen

\* Handle going on to the next record when the timestamp does not parse
HandleSkipsUnparsed ==
    /\ ~Crashed
    /\ pcMain = "handle"
    /\ IF IsDuplicate(w)
       THEN UNCHANGED <<seen, output, stderr, emitted>>
       ELSE /\ seen' = seen \cup {w.url}
            /\ IF dates /\ ParseTime(w.date).err
               THEN /\ stderr' = Append(stderr, ParseFailure(w))
                    /\ UNCHANGED <<output, emitted>>
               ELSE /\ output' = Append(output, FormatLine(w))
                    /\ emitted' = Append(emitted, sent[Len(sent)])
                    /\ UNCHANGED stderr
    /\ pcMain' = "range"
    /\ UNCHANGED <<config, lookups, fetchFns, idx, started, syncVars, taskVars, w,
                   exitCode, raw, firstFetch, sent, outStart, netCalls, closes>>

\* lines 147-163: one record is dropped as a duplicate or printed
Handle ==
    /\ ~Crashed
    /\ pcMain = "handle"
    /\ IF IsDuplicate(w)
       THEN UNCHANGED <<seen, output, stderr, emitted>>
       ELSE /\ seen' = seen \cup {w.url}
            /\ output' = Append(output, FormatLine(w))
            /\ stderr' = IF dates /\ ParseTime(w.date).err
                         THEN Append(stderr, ParseFailure(w))
                         ELSE stderr
            /\ emitted' = Append(emitted, sent[Len(sent)])
    /\ pcMain' = "range"
    /\ UNCHANGED <<config, lookups, fetchFns, idx, started, syncVars, taskVars, w, exitCode,
                   raw, firstFetch, sent, outStart, netCalls, closes>>

\* RangeEnd leaving the loop without the close of wurls
RangeEndWithoutClose ==
    /\ ~Crashed
    /\ pcMain = "range"
    /\ pcMain' = "loop"
    /\ idx' = idx + 1
    /\ UNCHANGED <<config, lookups, fetchFns, started, syncVars, taskVars, consumerVars,
                   streams, history>>

\* line 146: the range loop ends when wurls is closed; main goes on to the
\* next domain
RangeEnd ==
    /\ ~Crashed
    /\ pcMain = "range"
    /\ closed
    /\ pcMain' = "loop"
    /\ idx' = idx + 1
    /\ UNCHANGED <<config, lookups, fetchFns, started, syncVars, taskVars, consumerVars,
                   streams, history>>

\* -------------------------------------------------------------- the runtime

DeadlockMessage == <<"fatal error: all goroutines are asleep - deadlock!">>

\* every goroutine is blocked: main in its receive of line 146, the closing
\* goroutine in wg.Wait() of line 141, and every adapter goroutine that is
\* left in its send on the full limiter of line 125
AllAsleep ==
    /\ Running
    /\ pcMain = "range"
    /\ ~closed
    /\ pcCloser = "wait" /\ ~WaitReturns
    /\ \A i \in Tasks :
          \/ pcTask[i] \in {"idle", "done"}
          \/ pcTask[i] = "acquire" /\ ~LimiterHasRoom

\* the Go runtime may find that no goroutine can run: it then ends the
\* process with a fatal error and status 2 (a build in which it does not
\* look leaves the process blocked)
DeadlockDetected ==
    /\ AllAsleep
    /\ stderr' = Append(stderr, DeadlockMessage)
    /\ exitCode' = 2
    /\ UNCHANGED <<config, lookups, mainVars, syncVars, taskVars, consumerVars,
                   output, history>>

\* -------------------------------------------------------------------- spec

Next ==
    \/ StartVersions
    \/ GetVersionsCall
    \/ GetVersionsReturn
    \/ VersionsDone
    \/ SelectSources
    \/ Finish
    \/ NextDomain
    \/ Spawn
    \/ SpawnCloser
    \/ \E i \in Tasks : Acquire(i)
    \/ \E i \in Tasks : FetchReturn(i)
    \/ \E i \in Tasks : Release(i)
    \/ \E i \in Tasks : Send(i)
    \/ \E i \in Tasks : TaskDone(i)
    \/ CloserWait
    \/ Close
    \/ Handle
    \/ RangeEnd
    \/ DeadlockDetected

Spec == Init /\ [][Next]_vars

\* a panic of a fetch has ended the process
Panicked == Crashed /\ DeadlockMessage \notin Range(stderr)

\* the steps of the program itself
ProgramStep ==
    \/ StartVersions
    \/ GetVersionsCall
    \/ GetVersionsReturn
    \/ VersionsDone
    \/ SelectSources
    \/ Finish
    \/ NextDomain
    \/ Spawn
    \/ SpawnCloser
    \/ \E i \in Tasks : Acquire(i) \/ FetchReturn(i) \/ Release(i) \/ Send(i) \/ TaskDone(i)
    \/ CloserWait
    \/ Close
    \/ Handle
    \/ RangeEnd

\* the runs without -dates and with a key for the reputation index
FairInit == Init /\ ~dates /\ apiKey # <<>>

\* the scheduler lets a goroutine that can run take its step, and every
\* request gets its answer
FairSpec == FairInit /\ [][Next]_vars /\ WF_vars(ProgramStep)

\* -------------------------------------------------------------- properties

\* the run is in the multi-source mode (it was not given -get-versions)
MultiSource == ~getVersionsFlag

\* the adapter goroutines of the current domain
Launched == 1..started

\* the record behind an entry (goroutine, index) of sent or emitted
Rec(e) == resp[e.from][e.k]

\* the lines printed for the current domain
TargetOutput == SubSeq(output, outStart + 1, Len(output))

\* the current domain has been drained (its state is kept until the next
\* domain begins)
TargetEnded == MultiSource /\ ~Crashed /\ pcMain \in {"loop", "done"} /\ idx > 1

\* the records received that the consumer has dealt with
Processed == IF pcMain = "handle" THEN SubSeq(sent, 1, Len(sent) - 1) ELSE sent

\* of a log of received records, those that are the first with their URL
FirstByUrl(log) ==
    LET urls == [n \in 1..Len(log) |-> Rec(log[n]).url]
        firsts == SelectSeq([n \in 1..Len(log) |-> n],
                            LAMBDA n : \A m \in 1..(n - 1) : urls[m] # urls[n])
    IN [a \in 1..Len(firsts) |-> log[firsts[a]]]

\* the goroutines whose fetch has returned without a panic
Returned(i) == pcTask[i] \in {"release", "send", "return", "done"}

\* C1: within one domain's run no two printed lines have the same URL; the
\* line printed for a URL is that of the first record with that URL that was
\* received from wurls, and every later record with that URL is dropped
C1_FirstSeenWinsNoDuplicates ==
    MultiSource =>
       /\ \A a, b \in 1..Len(emitted) :
             a # b => Rec(emitted[a]).url # Rec(emitted[b]).url
       /\ emitted = FirstByUrl(Processed)
       /\ Len(TargetOutput) = Len(emitted)
       /\ \A a \in 1..Len(emitted) : TargetOutput[a] = FormatLine(Rec(emitted[a]))

\* C1 witness: a record was dropped whose URL had been printed for a record
\* of another adapter with another timestamp
C1_Witness ==
    /\ pcMain = "range"
    /\ \E a \in 1..Len(emitted) :
          LET last == sent[Len(sent)]
          IN /\ last # emitted[a]
             /\ last.from # emitted[a].from
             /\ Rec(last).url = Rec(emitted[a]).url
             /\ Rec(last).date # Rec(emitted[a]).date

\* the adapter goroutines that hold a budget slot: between the send on
\* limiter and the receive from it
InFlight == { i \in Tasks : pcTask[i] \in {"fetch", "release"} }

\* C2: the adapter goroutines with a request in flight never outnumber the
\* concurrency budget; no goroutine of an earlier domain is left when the
\* next domain begins, so the count covers the whole process
C2_InFlightWithinBudget ==
    /\ Cardinality(InFlight) <= concurrency
    /\ limiter = Cardinality(InFlight)
    /\ pcMain \in {"start", "loop", "done", "exit"} =>
          \A i \in Tasks : pcTask[i] \in {"idle", "done"}

\* C2 witness: the budget is used up and another goroutine waits for a slot
C2_Witness ==
    /\ concurrency >= 1
    /\ Cardinality(InFlight) = concurrency
    /\ \E i \in Tasks : pcTask[i] = "acquire"

\* C3: wurls is closed at most once, and only when every adapter goroutine
\* launched for the domain is done; no goroutine is left to send on the
\* closed channel; the consumer leaves its loop only on the close, so a
\* drained domain has been closed exactly once
C3_ClosedOnceAfterAllDone ==
    /\ closes <= 1
    /\ closed <=> closes = 1
    /\ closed => /\ started = Len(fetchFns)
                 /\ \A i \in Launched : pcTask[i] = "done"
                 /\ ~Crashed
    /\ TargetEnded => closes = 1

\* C3 witness: a domain was closed and drained after one adapter failed and
\* another delivered records
C3_Witness ==
    /\ TargetEnded
    /\ closed
    /\ \E i, j \in Launched : err[i] /\ ~err[j] /\ \E e \in Range(sent) : e.from = j

\* the domain the goroutines of the current state were launched for
TargetDomain == IF pcMain \in {"loop", "done"} THEN domains[idx - 1] ELSE domains[idx]

\* the entries of sent that goroutine i sent
WasSent(i, k) == [from |-> i, k |-> k] \in Range(sent)

\* C4: an adapter goroutine whose fetch returned an error sends nothing and
\* returns; when the domain is drained every goroutine is done and every
\* record of a successful goroutine that passes the filter was handed to
\* wurls; if all adapters failed nothing was printed for the domain; exit
\* status 1 comes only from an empty source selection, and after a drained
\* domain main can go on
C4_FailedAdapterDoesNotAbortSiblings ==
    /\ \A i \in Launched :
          Returned(i) /\ err[i] =>
             /\ pcTask[i] \in {"release", "return", "done"}
             /\ \A e \in Range(sent) : e.from # i
    /\ TargetEnded =>
          /\ \A i \in Launched :
                /\ pcTask[i] = "done"
                /\ ~err[i] =>
                      \A k \in 1..Len(resp[i]) :
                         Kept(resp[i][k], TargetDomain) => WasSent(i, k)
          /\ (\A i \in Launched : err[i]) => TargetOutput = <<>>
          /\ pcMain = "loop" => ENABLED (NextDomain \/ Finish)
    /\ exitCode = 1 => fetchFns = <<>> /\ idx = 0

\* C4 witness: the first of two domains is drained, one adapter failed, a
\* sibling's records were printed, and main is about to go on
C4_Witness ==
    /\ TargetEnded
    /\ pcMain = "loop"
    /\ idx = 2
    /\ Len(domains) = 2
    /\ \E i, j \in Launched : err[i] /\ ~err[j] /\ \E e \in Range(emitted) : e.from = j

\* what C5 says the filter lets through: with excludeSubdomains, the URLs
\* that do not parse and those whose host is the target, letter case aside
ClaimKeeps(u, target) ==
    noSubs => \/ Parse(u).err
              \/ ToLower(Hostname(Parse(u))) = ToLower(target)

\* C5: a record of a successful adapter is handed to wurls iff the claimed
\* filter keeps it (for each record the loop has passed; the record the
\* goroutine is about to send is one the filter keeps); for the target
\* example.com sub.example.com is dropped, EXAMPLE.com and a URL that does
\* not parse are sent
C5_SubdomainFilter ==
    \A i \in Launched :
       Returned(i) /\ pcTask[i] # "release" /\ ~err[i] =>
          /\ \A k \in 1..Len(resp[i]) :
                /\ k < pos[i] =>
                      (WasSent(i, k) <=> ClaimKeeps(resp[i][k].url, TargetDomain))
                /\ k >= pos[i] => ~WasSent(i, k)
                /\ (noSubs /\ TargetDomain = Example /\ k < pos[i]) =>
                      /\ resp[i][k].url = UrlSub => ~WasSent(i, k)
                      /\ resp[i][k].url \in {UrlUpper, UrlBad, UrlA, UrlB} => WasSent(i, k)
          /\ pcTask[i] = "send" => ClaimKeeps(resp[i][pos[i]].url, TargetDomain)
          /\ pcTask[i] \in {"return", "done"} => pos[i] = Len(resp[i]) + 1

\* C5 witness: with excludeSubdomains a goroutine is done that dropped
\* sub.example.com and sent EXAMPLE.com, and a URL that does not parse was sent
C5_Witness ==
    /\ noSubs
    /\ \E i \in Launched :
          /\ pcTask[i] = "done"
          /\ \E k, l \in 1..Len(resp[i]) :
                /\ resp[i][k].url = UrlSub /\ ~WasSent(i, k)
                /\ resp[i][l].url = UrlUpper /\ WasSent(i, l)
    /\ \E e \in Range(sent) : Rec(e).url = UrlBad

\* the recognised names among the names given in the -sources flag
Recognised(flag) ==
    LET given == Split(flag)
        trimmed == { TrimSpace(given[k]) : k \in 1..Len(given) }
    IN { n \in {"wayback", "commoncrawl", "virustotal"} : <<n>> \in trimmed }

\* C6: in the multi-source mode, once the sources are resolved, the process
\* has exited with the
\* configuration error iff no given name is recognised; it then has status
\* 1, has written the message to the error stream, and no adapter goroutine
\* was started, no request issued and nothing printed; otherwise exactly the
\* recognised names are the adapters, whatever else was given
C6_NoSourcesIsFatalBeforeFetch ==
    /\ (MultiSource /\ pcMain # "start") =>
          LET names == Recognised(sourcesFlag)
          IN /\ pcMain = "exit" <=> names = {}
             /\ Range(fetchFns) = names
    /\ pcMain = "exit" =>
          /\ exitCode = 1
          /\ stderr = <<NoSourcesMessage>>
          /\ netCalls = 0
          /\ started = 0
          /\ \A i \in Tasks : pcTask[i] = "idle" /\ req[i] = NoRequest
          /\ output = <<>>
    /\ exitCode = 1 => pcMain = "exit"

\* C6 witness: names were given, none recognised, and the process has
\* exited with targets to fetch
C6_Witness ==
    /\ pcMain = "exit"
    /\ sourcesFlag = <<"foo", ",", "Wayback">>
    /\ Len(domains) >= 1

\* C6 witness of the other half: an unrecognised name beside recognised ones
\* and the run is fetching
C6_WitnessIgnored ==
    /\ sourcesFlag = <<"foo", ",", " ", "commoncrawl", ",", "virustotal", " ">>
    /\ fetchFns = <<"commoncrawl", "virustotal">>
    /\ netCalls >= 1

\* the archive-index response of the scenario of C7
ScenarioResponse ==
    WaybackOK(Body(<<Header, DataRow(D2020, UrlA), DataRow(D2020, UrlA)>>))

\* a response whose body is an array of rows of three fields or more after
\* the first
WellFormedRows(r) ==
    /\ ~r.getErr /\ ~r.readErr /\ r.body.valid
    /\ \A k \in 1..Len(r.body.elems) :
          /\ r.body.elems[k].isArray
          /\ k >= 2 => Len(r.body.elems[k].fields) >= 3

\* C7: the records of an archive-index fetch are the rows after the first,
\* one record per row in order, whatever the first row holds; and the
\* scenario (target example.com, the archive index alone, plain mode, a
\* header row and two identical rows) prints exactly http://example.com/a
C7_FirstRowDiscarded ==
    /\ \A i \in Launched :
          (fetchFns[i] = "wayback" /\ Returned(i) /\ WellFormedRows(raw[i])) =>
             LET rows == raw[i].body.elems
             IN /\ ~err[i]
                /\ Len(resp[i]) = (IF rows = <<>> THEN 0 ELSE Len(rows) - 1)
                /\ \A k \in 1..Len(resp[i]) :
                      resp[i][k] = wurl(rows[k + 1].fields[2], rows[k + 1].fields[3])
    /\ (/\ TargetEnded
        /\ domains = <<Example>>
        /\ fetchFns = <<"wayback">>
        /\ ~dates
        /\ raw[1] = ScenarioResponse) => output = <<UrlA>>

\* C7 witness: the scenario has run to its end
C7_Witness ==
    /\ pcMain = "done"
    /\ domains = <<Example>>
    /\ fetchFns = <<"wayback">>
    /\ ~dates
    /\ raw[1] = ScenarioResponse
    /\ output = <<UrlA>>

\* C7 witness of the general half: a first row that looks like a record was
\* discarded and the rows after it were printed
C7_WitnessDataFirst ==
    /\ TargetEnded
    /\ \E i \in Launched :
          /\ fetchFns[i] = "wayback"
          /\ WellFormedRows(raw[i])
          /\ raw[i].body.elems[1] = DataRow(D2020, UrlA)
          /\ UrlA \notin { Rec(e).url : e \in Range(emitted) }
          /\ Len(emitted) >= 2

\* goroutine i returned, without an error, a record with URL u that passes
\* the filter
Returns(i, u) ==
    /\ Returned(i) /\ ~err[i]
    /\ \E k \in 1..Len(resp[i]) : resp[i][k].url = u /\ Kept(resp[i][k], TargetDomain)

\* two adapters returned URL u with different timestamps
SharedWithOtherDate(u) ==
    \E i, j \in Launched :
       /\ i < j
       /\ Returned(i) /\ ~err[i] /\ Returned(j) /\ ~err[j]
       /\ \E k \in 1..Len(resp[i]), l \in 1..Len(resp[j]) :
             /\ resp[i][k].url = u /\ resp[j][l].url = u
             /\ resp[i][k].date # resp[j][l].date
             /\ Kept(resp[i][k], TargetDomain)

\* C8 as claimed: when the adapter whose fetch returned first returned a URL
\* that another adapter returned with another timestamp, the line printed
\* for that URL is of the record of the first adapter
C8_FirstCompletedFetchWins ==
    \A a \in 1..Len(emitted) :
       LET u == Rec(emitted[a]).url
       IN (firstFetch \in Launched /\ Returns(firstFetch, u) /\ SharedWithOtherDate(u))
             => emitted[a].from = firstFetch

\* C8 as amended: for a URL that two or more adapters returned with
\* different timestamps, exactly one line is printed, it is the line of the
\* record with that URL that the consumer received first from wurls, and it
\* is there once the domain is drained
C8_FirstReceivedOfSharedUrlWins ==
    (\E i, j \in Launched : i < j /\ resp[i] # <<>> /\ resp[j] # <<>>) =>
       \A u \in UNION { { resp[i][k].url : k \in 1..Len(resp[i]) } : i \in Launched } :
          SharedWithOtherDate(u) =>
             LET got == SelectSeq(Processed, LAMBDA e : Rec(e).url = u)
                 printed == { a \in 1..Len(emitted) : Rec(emitted[a]).url = u }
             IN /\ TargetEnded => got # <<>>
                /\ got = <<>> => printed = {}
                /\ got # <<>> =>
                      /\ Cardinality(printed) = 1
                      /\ \A a \in printed :
                            /\ emitted[a] = got[1]
                            /\ TargetOutput[a] = FormatLine(Rec(got[1]))

\* C8 witness: the line printed for a URL two adapters returned with different
\* timestamps is of the adapter whose fetch did not return first
C8_Witness ==
    /\ TargetEnded
    /\ \E a \in 1..Len(emitted) :
          LET u == Rec(emitted[a]).url
          IN /\ SharedWithOtherDate(u)
             /\ firstFetch \in Launched
             /\ Returns(firstFetch, u)
             /\ emitted[a].from # firstFetch
             /\ \E k \in 1..Len(resp[firstFetch]) :
                   /\ resp[firstFetch][k].url = u
                   /\ resp[firstFetch][k].date # Rec(emitted[a]).date

\* goroutine i has read a response (a fetch without a request reads none)
HasRead(i) == req[i] # NoRequest /\ "none" \notin DOMAIN raw[i]

\* the request failed, or the body could not be decoded where the adapter
\* has to decode it as a whole
FailedResponse(fn, r) ==
    CASE fn = "wayback" ->
            \/ r.getErr \/ r.readErr \/ ~r.body.valid
            \/ \E k \in 1..Len(r.body.elems) : ~r.body.elems[k].isArray
      [] fn = "commoncrawl" -> r.getErr
      [] fn = "virustotal" -> r.getErr \/ ~r.body.valid

\* C9 as claimed: a fetch whose request failed or whose body could not be
\* decoded returns no record and a non-nil error
C9_FailureReturnsError ==
    \A i \in Launched :
       (HasRead(i) /\ Returned(i) /\ FailedResponse(fetchFns[i], raw[i])) =>
          err[i] /\ resp[i] = <<>>

\* the well-formed records of a response, in order: the archive-index rows
\* after the first that have three fields, the crawl-index lines that are
\* valid JSON
RECURSIVE GoodRows(_)
GoodRows(rows) ==
    IF rows = <<>> THEN <<>>
    ELSE (IF Len(Head(rows).fields) >= 3
          THEN <<wurl(Head(rows).fields[2], Head(rows).fields[3])>>
          ELSE <<>>) \o GoodRows(Tail(rows))

RECURSIVE GoodLines(_)
GoodLines(lines) ==
    IF lines = <<>> THEN <<>>
    ELSE (IF Head(lines).valid
          THEN <<wurl(Head(lines).timestamp, Head(lines).url)>>
          ELSE <<>>) \o GoodLines(Tail(lines))

\* C10 as claimed: of a response that arrived and is a JSON array of rows
\* (archive index) or a sequence of lines (crawl index), a malformed row or
\* line is skipped: the fetch returns, without an error, the well-formed
\* records in order, and the process goes on
C10_MalformedRecordSkipped ==
    \A i \in Launched :
       (HasRead(i) /\ ~FailedResponse(fetchFns[i], raw[i])) =>
          /\ ~Crashed
          /\ Returned(i)
          /\ ~err[i]
          /\ fetchFns[i] = "wayback" =>
                resp[i] = (IF raw[i].body.elems = <<>> THEN <<>>
                           ELSE GoodRows(Tail(raw[i].body.elems)))
          /\ fetchFns[i] = "commoncrawl" => resp[i] = GoodLines(raw[i].lines)

\* the records received from the adapters other than the reputation index
FromOthers(log) == SelectSeq(log, LAMBDA e : fetchFns[e.from] # "virustotal")

\* C11: without VT_API_KEY the reputation-index goroutine issues no request
\* and its fetch returns no record and no error, so it sends nothing; what is
\* printed for the domain is what the records received from the other
\* adapters give (nothing when it is the only adapter), and the process does
\* not exit with an error on its account (with a budget of 0 it ends, if at
\* all, by the deadlock on the limiter, whatever the key)
C11_NoKeyNoCallNoRecordsNoError ==
    (MultiSource /\ apiKey = <<>>) =>
       /\ \A i \in Launched :
             fetchFns[i] = "virustotal" =>
                /\ req[i] = NoRequest
                /\ raw[i] = NoResponse
                /\ Returned(i) => resp[i] = <<>> /\ ~err[i]
                /\ \A e \in Range(sent) : e.from # i
       /\ emitted = FirstByUrl(FromOthers(Processed))
       /\ Len(TargetOutput) = Len(emitted)
       /\ \A a \in 1..Len(emitted) : TargetOutput[a] = FormatLine(Rec(emitted[a]))
       /\ fetchFns = <<"virustotal">> =>
             /\ netCalls = 0
             /\ output = <<>>
             /\ concurrency >= 1 => exitCode \in {-1, 0}
             /\ pcMain = "loop" => ENABLED (NextDomain \/ Finish)
       /\ "virustotal" \in Range(fetchFns) => exitCode # 1

\* C11 witness: the reputation index is the only adapter, there is no key,
\* and the run over two targets has ended normally
C11_Witness ==
    /\ apiKey = <<>>
    /\ fetchFns = <<"virustotal">>
    /\ Len(domains) = 2
    /\ pcMain = "done"
    /\ exitCode = 0
    /\ netCalls = 0
    /\ output = <<>>

\* C11 witness of the other half: without a key, beside two other adapters
\* whose records were printed
C11_WitnessWithOthers ==
    /\ apiKey = <<>>
    /\ Len(fetchFns) = 3
    /\ TargetEnded
    /\ pcTask[3] = "done"
    /\ netCalls = 2
    /\ Len(emitted) >= 2

\* the rows after the first of a response that getVersions decodes without
\* an error and whose rows after the first have the six fields up to the
\* digest; <<>> with listed = FALSE for any other response
DataRows(r) ==
    IF /\ ~r.getErr /\ r.body.valid
       /\ \A k \in 1..Len(r.body.elems) :
             /\ r.body.elems[k].isArray
             /\ k >= 2 => Len(r.body.elems[k].fields) >= 6
    THEN [listed |-> TRUE,
          rows |-> [k \in 1..(IF r.body.elems = <<>> THEN 0 ELSE Len(r.body.elems) - 1) |->
                      r.body.elems[k + 1].fields]]
    ELSE [listed |-> FALSE, rows |-> <<>>]

\* the positions, in order, of the rows that are the first with their digest
FirstOfDigest(rows) ==
    SelectSeq([j \in 1..Len(rows) |-> j],
              LAMBDA j : \A i \in 1..(j - 1) : rows[i][6] # rows[j][6])

\* C12: getVersions returns, without an error, one snapshot URL for every
\* distinct digest (the sixth field) among the rows after the first; the
\* URL is made of the timestamp and the original URL of the first row with
\* that digest, and the URLs are in the order of those rows; rows that share
\* a digest and differ elsewhere give one URL
C12_OneSnapshotPerDigest ==
    \A n \in 1..Len(lookups) :
       LET data == DataRows(lookups[n].r)
           rows == data.rows
           out == lookups[n].out
           firsts == FirstOfDigest(rows)
       IN data.listed =>
             /\ ~lookups[n].err
             /\ Len(out) = Cardinality({ rows[j][6] : j \in 1..Len(rows) })
             /\ Len(out) = Len(firsts)
             /\ \A k \in 1..Len(out) :
                   out[k] = <<"https://web.archive.org/web/">> \o rows[firsts[k]][2]
                            \o <<"if_/">> \o rows[firsts[k]][3]

\* C12 witness: a response with three rows of one digest, of which two
\* differ in timestamp and media type, and a row of another digest between
\* them, was listed as two snapshot URLs
C12_Witness ==
    \E n \in 1..Len(lookups) :
       LET rows == DataRows(lookups[n].r).rows
       IN /\ DataRows(lookups[n].r).listed
          /\ Len(rows) = 4
          /\ rows[1][6] = rows[2][6] /\ rows[1][2] # rows[2][2] /\ rows[1][4] # rows[2][4]
          /\ rows[3][6] # rows[1][6]
          /\ rows[4][6] = rows[1][6]
          /\ Len(lookups[n].out) = 2
          /\ lookups[n].out[1] = SnapshotURL(rows[1])
          /\ lookups[n].out[2] = SnapshotURL(rows[3])

\* the text of the scenario of C13 and of the zero time
Stamp2020 ==
    <<"2", "0", "2", "0", "-", "0", "1", "-", "0", "1", "T",
      "0", "0", ":", "0", "0", ":", "0", "0", "Z">>
StampZero ==
    <<"0", "0", "0", "1", "-", "0", "1", "-", "0", "1", "T",
      "0", "0", ":", "0", "0", ":", "0", "0", "Z">>

\* line ends with a space and the URL u
EndsWithUrl(line, u) ==
    /\ Len(line) > Len(u)
    /\ SubSeq(line, Len(line) - Len(u), Len(line)) = <<" ">> \o u

\* the timestamps of the model that are 14-digit archive timestamps
Parses(d) == d \in {D2020, D2021}

\* C13: with -dates, every record that was not dropped as a duplicate has
\* its one line, which is a time stamp of twenty characters, a space and the
\* URL, whether its timestamp parses (20200101000000 with http://x.test/
\* gives 2020-01-01T00:00:00Z http://x.test/, a fact of the formatting that
\* is looked at once, where the run starts) or not (the zero time is
\* written); every failure to parse has its diagnostic on the error
\* stream, one for each line with the zero time; every record received, also
\* after one that did not parse, has the line of its URL, and the process ends
\* early only by the panic of a fetch or, with a budget of 0, by the
\* deadlock the runtime finds
C13_DatedLineAlwaysEmitted ==
    (MultiSource /\ dates) =>
       /\ pcMain = "start" =>
             FormatLine(wurl(D2020, <<"http://", "x.test", "/">>))
                = Stamp2020 \o <<" ", "http://", "x.test", "/">>
       /\ \A n \in 1..Len(Processed) :
             \E a \in 1..Len(emitted) : Rec(emitted[a]).url = Rec(sent[n]).url
       /\ Len(TargetOutput) = Len(emitted)
       /\ \A a \in 1..Len(emitted) :
             LET rec == Rec(emitted[a])
                 line == TargetOutput[a]
             IN /\ EndsWithUrl(line, rec.url)
                /\ Len(line) = 20 + 1 + Len(rec.url)
                /\ rec.date = D2020 => line = Stamp2020 \o <<" ">> \o rec.url
                /\ ~Parses(rec.date) =>
                      /\ line = StampZero \o <<" ">> \o rec.url
                      /\ ParseFailure(rec) \in Range(stderr)
       /\ Cardinality({ n \in 1..Len(stderr) :
                           stderr[n] \notin {NoSourcesMessage, DeadlockMessage} }) =
             Cardinality({ n \in 1..Len(output) : SubSeq(output[n], 1, 20) = StampZero })
       /\ exitCode = 1 => pcMain = "exit"
       /\ Crashed =>
             \/ \E i \in Launched : pcTask[i] = "fetch" /\ Fetch(fetchFns[i], raw[i]).panic
             \/ concurrency = 0 /\ ~Panicked

\* C13 witness: with -dates the run has ended normally; for its last domain
\* a record whose timestamp does not parse was printed with its diagnostic,
\* and after it a record whose timestamp parses
C13_Witness ==
    /\ MultiSource /\ dates
    /\ pcMain = "done" /\ exitCode = 0
    /\ \E a, b \in 1..Len(emitted) :
          /\ a < b
          /\ Rec(emitted[a]).date = DBad
          /\ ParseFailure(Rec(emitted[a])) \in Range(stderr)
          /\ TargetOutput[a] = StampZero \o <<" ">> \o Rec(emitted[a]).url
          /\ Rec(emitted[b]).date = D2020
          /\ TargetOutput[b] = Stamp2020 \o <<" ">> \o Rec(emitted[b]).url

\* the lines written for a log of lookups: those of the lookups without an
\* error, in the order of the log
RECURSIVE VersionLines(_)
VersionLines(log) ==
    IF log = <<>> THEN <<>>
    ELSE (IF Head(log).err THEN <<>> ELSE PrintVersions(Head(log).out))
         \o VersionLines(Tail(log))

\* the response is one getVersions returns an error for: the request
\* failed, or the body is not a JSON array of arrays
FailedLookup(r) ==
    \/ r.getErr \/ ~r.body.valid
    \/ \E k \in 1..Len(r.body.elems) : ~r.body.elems[k].isArray

\* C14 as claimed: with -get-versions the inputs are looked up in input
\* order; a lookup that fails with a transport or decode error writes
\* nothing and the next input is looked up; whatever a response holds the
\* process goes on, and it returns only when every input was looked up
C14_FailedLookupSkippedBatchGoesOn ==
    getVersionsFlag =>
       /\ ~Crashed
       /\ \A n \in 1..Len(lookups) :
             /\ lookups[n].u = domains[n]
             /\ FailedLookup(lookups[n].r) => lookups[n].err /\ lookups[n].out = <<>>
       /\ output = VersionLines(lookups)
       /\ pcMain = "versions" => Len(lookups) = idx - 1
       /\ pcMain = "done" => Len(lookups) = Len(domains) /\ exitCode = 0

\* what holds of C14: the same while no response has a row of fewer than
\* six fields after the first, that is until the process panics
C14_FailedLookupSkippedUntilPanic ==
    (getVersionsFlag /\ ~Crashed) =>
       /\ \A n \in 1..Len(lookups) :
             /\ lookups[n].u = domains[n]
             /\ FailedLookup(lookups[n].r) => lookups[n].err /\ lookups[n].out = <<>>
       /\ output = VersionLines(lookups)
       /\ pcMain = "versions" => Len(lookups) = idx - 1
       /\ pcMain = "done" => Len(lookups) = Len(domains) /\ exitCode = 0

\* the batch goes on after a failed lookup: the first of two inputs failed,
\* the second was listed and the run has ended normally
C14_WitnessGoesOn ==
    /\ getVersionsFlag
    /\ pcMain = "done"
    /\ Len(lookups) = 2
    /\ lookups[1].err /\ lookups[1].r.body.valid
    /\ ~lookups[2].err
    /\ output = <<SnapshotURL(<<<<"_">>, D2020, UrlB>>),
                  SnapshotURL(<<<<"_">>, DBad, UrlB>>)>>

\* the batch is aborted: the process has panicked in the lookup of the
\* first of two inputs
C14_WitnessAborted ==
    /\ getVersionsFlag
    /\ Crashed
    /\ Len(domains) = 2
    /\ idx = 1
    /\ output = <<>>

\* C15: the tokens in limiter are those of the goroutines between their
\* send on limiter and their receive from it, one each: a goroutine that
\* waits for a slot has issued no request, a goroutine whose fetch has
\* returned gives its token back as its next step, with or without an
\* error, and a goroutine that filters, sends, returns or is done holds
\* none; when wurls is closed, and when the domain is drained, limiter is
\* empty
C15_SlotHeldOnlyDuringFetch ==
    MultiSource =>
       /\ limiter = Cardinality({ i \in Tasks : pcTask[i] \in {"fetch", "release"} })
       /\ \A i \in Tasks :
             /\ pcTask[i] \in {"idle", "acquire"} =>
                   req[i] = NoRequest /\ raw[i] = NoResponse
             /\ (Running /\ pcTask[i] = "release") =>
                   /\ ENABLED Release(i)
                   /\ ~ENABLED Send(i)
                   /\ \A e \in Range(sent) : e.from # i
             /\ (pcTask[i] = "send" /\ limiter = 0) =>
                   \A j \in Tasks : pcTask[j] \notin {"fetch", "release"}
       /\ closed => limiter = 0
       /\ TargetEnded => limiter = 0
       /\ netCalls <= Len(fetchFns) * Len(domains)

\* C15 witness: with a budget of one, a goroutine waits to send its next
\* record while another has the slot for its fetch, and a third, whose
\* fetch failed, is done
C15_Witness ==
    /\ concurrency = 1
    /\ limiter = 1
    /\ \E i, j, k \in Launched :
          /\ pcTask[i] = "send" /\ \E e \in Range(sent) : e.from = i
          /\ pcTask[j] = "fetch"
          /\ pcTask[k] = "done" /\ err[k]

\* C16: in every step of the multi-source mode: main moves to the next
\* domain only from its range loop with no record in hand, when every
\* adapter goroutine of the domain is done and wurls is closed, and then to
\* the domain that follows; a goroutine is started, and a request issued,
\* only for the domain main is at; the output only grows, by one line of a
\* record received from a goroutine of the domain main is at; so the lines
\* of a domain follow those of the domains before it
C16_TargetsOneAfterAnother ==
    [][MultiSource =>
         /\ idx' # idx =>
               /\ idx' = idx + 1
               /\ idx >= 1 =>
                     /\ pcMain = "range"
                     /\ closed /\ closes = 1
                     /\ started = Len(fetchFns)
                     /\ \A i \in Launched : pcTask[i] = "done"
                     /\ wg = 0 /\ limiter = 0
                     /\ emitted = FirstByUrl(sent)
                     /\ output' = output
         /\ started' > started =>
               /\ pcMain = "spawn" /\ idx' = idx /\ idx \in 1..Len(domains)
               /\ ~closed
         /\ \A i \in Tasks :
               (req'[i] # req[i] /\ req'[i] # NoRequest) =>
                  /\ idx' = idx /\ i \in Launched
                  /\ req'[i] = Query(fetchFns[i], domains[idx])
         /\ output' # output =>
               /\ pcMain = "handle" /\ idx' = idx
               /\ output' = Append(output, FormatLine(Rec(sent[Len(sent)])))
               /\ sent[Len(sent)].from \in Launched
               /\ req[sent[Len(sent)].from] \in {NoRequest,
                      Query(fetchFns[sent[Len(sent)].from], domains[idx])}
               /\ Len(output) >= outStart
         /\ outStart' # outStart =>
               /\ outStart' = Len(output) /\ output' = output
               /\ \A i \in Tasks : pcTask'[i] = "idle"
    ]_vars

\* C16 witness: a goroutine of the second domain has its request in flight,
\* and the lines of the first domain are on the output
C16_Witness ==
    /\ MultiSource
    /\ Len(domains) = 2
    /\ idx = 2
    /\ outStart >= 1
    /\ Len(output) = outStart
    /\ \E i \in Launched : pcTask[i] = "fetch" /\ req[i] # NoRequest

\* the positions in resp[i] of the entries of a log that are of goroutine i
PositionsOf(log, i) ==
    LET own == SelectSeq(log, LAMBDA e : e.from = i)
    IN [n \in 1..Len(own) |-> own[n].k]

\* a sequence of numbers that grows strictly
Increasing(ks) == \A a, b \in 1..Len(ks) : a < b => ks[a] < ks[b]

\* the positions of the records of resp[i] that the filter keeps, in order
KeptPositions(i) ==
    SelectSeq([k \in 1..Len(resp[i]) |-> k], LAMBDA k : Kept(resp[i][k], TargetDomain))

\* line is the line of URL u: the URL alone, or with -dates a time stamp, a
\* space and the URL
LineHasUrl(line, u) == IF dates THEN EndsWithUrl(line, u) ELSE line = u

\* C17: the records of one adapter goroutine are received from wurls in
\* the order of its response: they are the first of the records the filter
\* keeps, in that order, none passed over; the printed records of a
\* goroutine are among its received ones and in the order of its response
\* too, and the lines of the output are, one by one, those of the printed
\* records
C17_PerAdapterOrderKept ==
    MultiSource =>
       /\ \A i \in Launched :
             LET got == PositionsOf(sent, i)
                 kept == KeptPositions(i)
                 printed == PositionsOf(emitted, i)
             IN /\ Increasing(got)
                /\ Len(got) <= Len(kept)
                /\ got = SubSeq(kept, 1, Len(got))
                /\ Increasing(printed)
                /\ Range(printed) \subseteq Range(got)
       /\ Len(TargetOutput) = Len(emitted)
       /\ \A a \in 1..Len(emitted) : LineHasUrl(TargetOutput[a], Rec(emitted[a]).url)

\* C17 witness: with -no-subs, the second record of a goroutine, whose first
\* record the filter dropped, was printed between the two records of another
\* goroutine, and a third goroutine's record was dropped as a duplicate
C17_Witness ==
    /\ MultiSource
    /\ noSubs
    /\ TargetEnded
    /\ Len(emitted) = 3
    /\ emitted[1].from = emitted[3].from
    /\ emitted[1].k < emitted[3].k
    /\ emitted[2].from # emitted[1].from
    /\ emitted[2].k = 2
    /\ Len(sent) > Len(emitted)

\* C17 witness of the second half: the first printed record is of the
\* goroutine started last
C17_WitnessLastFirst ==
    /\ MultiSource
    /\ Len(emitted) >= 2
    /\ emitted[1].from = 3
    /\ emitted[2].from = 1

\* C18: with a budget of one or more, in the multi-source mode, once the
\* goroutines of a domain are being started, the domain is drained in the
\* end: every adapter goroutine is done, wurls is closed and main has left
\* its range loop, unless a fetch ends the process by a panic instead of
\* returning; and the run ends; no state is reached in which every goroutine
\* is blocked
C18_EveryTargetIsDrained ==
    /\ [](concurrency >= 1 => ~AllAsleep /\ DeadlockMessage \notin Range(stderr))
    /\ (MultiSource /\ concurrency >= 1 /\ pcMain = "spawn")
          ~> \/ Panicked
             \/ /\ pcMain = "loop"
                /\ closed
                /\ \A i \in 1..Len(fetchFns) : pcTask[i] = "done"
    /\ (MultiSource /\ concurrency >= 1) ~> (Panicked \/ pcMain \in {"done", "exit"})

\* C18 witness: three adapters and a budget of one: a goroutine has the
\* slot for its fetch, another waits for the slot, and the third waits to
\* send its second record while main writes the first
C18_Witness ==
    /\ MultiSource
    /\ concurrency = 1
    /\ Len(fetchFns) = 3
    /\ pcMain = "handle"
    /\ \E i, j, k \in Launched :
          /\ pcTask[i] = "fetch"
          /\ pcTask[j] = "acquire"
          /\ pcTask[k] = "send" /\ pos[k] >= 2

\* the URLs of the lines printed for the current domain
EmittedUrls == { Rec(emitted[a]).url : a \in 1..Len(emitted) }

\* the URLs of the records that the goroutines whose fetch has returned
\* without an error have got and that the filter keeps
ReturnedUrls ==
    UNION { { resp[i][k].url : k \in { n \in 1..Len(resp[i]) : Kept(resp[i][n], TargetDomain) } }
            : i \in { j \in Launched : Returned(j) /\ ~err[j] } }

\* C19: no URL is printed for a domain that no successful adapter returned
\* and the filter keeps, and once the domain is drained every such URL has
\* its line, and one only; a failed adapter adds nothing
C19_EmittedUrlsAreReturnedUrls ==
    MultiSource =>
       /\ EmittedUrls \subseteq ReturnedUrls
       /\ Len(TargetOutput) = Len(emitted)
       /\ \A a \in 1..Len(emitted) :
             /\ LineHasUrl(TargetOutput[a], Rec(emitted[a]).url)
             /\ ~err[emitted[a].from]
       /\ TargetEnded =>
             /\ EmittedUrls = ReturnedUrls
             /\ Cardinality(ReturnedUrls) = Len(TargetOutput)
             /\ \A i \in Launched : Returned(i)

\* C19 witness: a domain is drained; one adapter failed, the other two
\* returned a URL in common and URLs of their own, one of which the filter
\* dropped; three URLs were printed
C19_Witness ==
    /\ TargetEnded
    /\ noSubs
    /\ Len(fetchFns) = 3
    /\ \E i \in Launched : err[i]
    /\ \E i, j \in Launched :
          /\ i # j /\ ~err[i] /\ ~err[j]
          /\ \E k \in 1..Len(resp[i]), l \in 1..Len(resp[j]) : resp[i][k].url = resp[j][l].url
          /\ \E l \in 1..Len(resp[j]) : ~Kept(resp[j][l], TargetDomain)
    /\ Cardinality(EmittedUrls) >= 2
    /\ EmittedUrls = ReturnedUrls

\* C20: -concurrency 0 is taken as it is: in the multi-source mode the
\* adapter goroutines of the first domain are started and none gets past its
\* send on limiter, so no request is issued, wurls is not closed, nothing is
\* printed and main does not leave its range loop; once all are started no
\* step of the program is possible any more; the process never returns from
\* main with targets to fetch: it stays blocked, or is ended by the runtime
\* with the fatal error of a deadlock
C20_ZeroBudgetBlocksForever ==
    (MultiSource /\ concurrency = 0) =>
       /\ \A i \in Tasks :
             /\ pcTask[i] \in {"idle", "acquire"}
             /\ req[i] = NoRequest /\ raw[i] = NoResponse
       /\ netCalls = 0 /\ limiter = 0
       /\ ~closed /\ closes = 0 /\ pcCloser \in {"idle", "wait"}
       /\ sent = <<>> /\ output = <<>>
       /\ idx <= 1
       /\ (pcMain = "range" /\ ~Crashed) =>
             /\ started = Len(fetchFns) /\ started >= 1 /\ wg = started
             /\ \A i \in Launched : pcTask[i] = "acquire"
             /\ AllAsleep
             /\ ~ENABLED ProgramStep
       /\ exitCode = 0 => domains = <<>>
       /\ exitCode = 2 => DeadlockMessage \in Range(stderr) /\ pcMain = "range"
       /\ pcMain = "done" => domains = <<>>

\* C20 witness: with a budget of 0 three adapter goroutines were started for
\* the first of two domains and every goroutine is blocked
C20_Witness ==
    /\ MultiSource
    /\ concurrency = 0
    /\ Len(domains) = 2
    /\ started = 3
    /\ AllAsleep
    /\ \A i \in Launched : pcTask[i] = "acquire"
    /\ output = <<>>

\* C20 witness of the other outcome: the runtime has ended the process
C20_WitnessFatal ==
    /\ MultiSource
    /\ concurrency = 0
    /\ exitCode = 2
    /\ stderr = <<DeadlockMessage>>

====
